---- MODULE Spec2Model ----
(***************************************************************************)
(* Node lifecycle and remote execution of voice_orchestrator.runpod:       *)
(* class Pod (credential cache, attach-or-create by name, readiness poll,  *)
(* port correction, execute, kill) against a provider inventory, and the   *)
(* task-execution node FinetunePod (push of the environment file in the    *)
(* constructor, run command in streaming mode).                            *)
(*                                                                         *)
(* Every controller c is one Pod(...) instantiation.  Python's None is     *)
(* the empty tuple and a present value v is <<v>>, so that truthiness      *)
(* (None, "" and 0 are falsy) is modelled as the code evaluates it.        *)
(*                                                                         *)
(* timeout and interval are the arguments of _wait_for_pod.  __init__      *)
(* passes the defaults (900, 1); the model explores the arguments up to    *)
(* MaxTimeout and MaxInterval, intervals 0 and -1 included.  The counts    *)
(* of status checks and sleeps are exact up to MaxTimeout and saturate     *)
(* above it, where only a poll that never advances (interval 0) arrives.   *)
(***************************************************************************)
EXTENDS Integers, Sequences, FiniteSets, TLC

\* ------------------------------------------------------------- bounds
\* number of Pod instantiations (one thread each under Spec)
NumProcs == 2
\* largest timeout argument of _wait_for_pod that is explored
MaxTimeout == 10
\* largest interval argument of _wait_for_pod that is explored
MaxInterval == 3
\* largest gpu_count argument that is explored
MaxGpu == 2
\* number of times the environment variables are rewritten during a run
MaxEnvChanges == 1
\* number of execute() calls per controller
MaxExecs == 1
\* number of kill() calls per controller
MaxKills == 1
\* number of chunks a streamed remote command writes
MaxChunks == 2

\* ------------------------------------------------------- value domains
None == <<>>
Some(v) == <<v>>

\* Python truthiness of an optional string: None and "" are falsy
TruthyStr(x) == x # None /\ x[1] # ""
\* Python truthiness of an optional int: None and 0 are falsy
TruthyInt(x) == x # None /\ x[1] # 0

Procs == 1..NumProcs
Names == {"a", "b"}
GpuCounts == {None} \cup {Some(n) : n \in 0..MaxGpu}
Timeouts == 0..MaxTimeout
Intervals == (-1)..MaxInterval
\* the arguments explored beside the full ranges above; with several
\* controllers the poll is given no time (timeout 0: it makes no check)
FewTimeouts == {0, 2}
FewIntervals == {1}
NoTimeout == {0}
OneGpuCount == {Some(1)}

\* values of RUNPOD_SSH_USER and RUNPOD_SSH_KEY_PATH (None: variable not set)
EnvUsers == {None, Some("alice")}
EnvKeys == {None, Some("~/k")}
\* what the operator may type at the passphrase prompt ("" for a key without one)
Passphrases == {"", "pw"}

\* the provider's answers to GET /v1/pods/{id}: publicIp and portMappings["22"]
Ips == {"10.0.0.1"}
RawPorts == {1, 22}
StatusReplies ==
    {[publicIp |-> None, raw |-> 0], [publicIp |-> Some(""), raw |-> 0]}
    \cup {[publicIp |-> Some(ip), raw |-> p] : ip \in Ips, p \in RawPorts}

\* no status answer received yet
NoReply == [publicIp |-> None, raw |-> -1]
\* the locals of _get_user_ssh before they are assigned
NoLocals == [user |-> "", key |-> "", pass |-> ""]
\* no execute() call has ended yet
NoResult == [how |-> "none", value |-> None]

\* text of a remote stream, as a sequence of characters
Texts == {<<>>, <<" ">>, <<" ", "r", "\n">>}
ExitStatuses == {0, 1}
\* no remote command has run yet
NoIo == [out |-> <<>>, err |-> <<>>, exit |-> 0, stream |-> FALSE]
\* what a streamed command leaves on the error stream and in the log
StreamErrs == {<<>>, <<" ">>}

\* the classes: the generic node and the task-execution node (FinetunePod;
\* InferencePod differs in its names and its run command only)
OnlyPod == {"Pod"}
OnlyFinetunePod == {"FinetunePod"}
\* the local files: the private key at the resolved path, .env in the
\* working directory
Files == [key : BOOLEAN, dotenv : BOOLEAN]
AllFiles == {[key |-> TRUE, dotenv |-> TRUE]}

\* the relay of a streamed command: the remote process, the chunks it
\* wrote (numbered, marked with whether the process was still running),
\* the chunks not yet received, the chunks printed, whether the loop has
\* seen the exit status, and how many chunks were printed before it did
NoStream == [proc |-> "none", sent |-> <<>>, chan |-> <<>>, written |-> <<>>,
             seen |-> FALSE, live |-> 0]
Running == [NoStream EXCEPT !.proc = "running"]

VARIABLES
    \* provider
    inventory,      \* active pods, in the order get_pods() lists them
    nextId,         \* next provider-assigned pod id
    \* environment
    env,            \* [user, key]: RUNPOD_SSH_USER, RUNPOD_SSH_KEY_PATH
    envChanges,     \* rewrites of the environment so far
    files,          \* [key, dotenv]: which local files exist
    \* class variables of Pod (the shared credential cache)
    ssh_user, ssh_key_path, ssh_passphrase,
    \* per controller: arguments
    name, gpu_count, timeout, interval,
    kind,           \* the class that is instantiated
    \* per controller: position and fields
    pc, loc, pods, id, public_ip, port, elapsed,
    \* per controller: observations
    order,          \* rank of the instantiation's start (0: not started)
    started,        \* instantiations started so far
    nList, nCreate, nStatus, nSleep,
    lastReply,      \* the last status answer
    firstAddr,      \* index of the first status check that carried an address
    outcome,        \* how _wait_for_pod ended
    apiError,       \* the provider request that raised ("none": no one did)
    prompts,        \* getpass calls so far
    nTerminate,     \* terminate requests so far
    execs, result,  \* execute() calls and how the last one ended
    stream,         \* the stream argument of the running execute()
    ssh,            \* the remote-shell session of the running execute()
    io,             \* what the last remote command wrote and its exit status
    call,           \* who made the last execute() call: the caller
                    \* ("execute"), _write_dotenv ("dotenv"), finetune ("run")
    boot,           \* how _write_dotenv ended
    runs,           \* run commands started on the node
    sio             \* the relay of the streamed command

vars == <<inventory, nextId, env, envChanges, ssh_user, ssh_key_path,
          ssh_passphrase, name, gpu_count, timeout, interval, pc, loc, pods,
          id, public_ip, port, elapsed, order, started, nList, nCreate,
          nStatus, nSleep, lastReply, firstAddr, outcome, prompts,
          nTerminate, execs, result, stream, ssh, io, files, kind,
          apiError, call, boot, runs, sio>>

provider == <<inventory, nextId>>
environment == <<env, envChanges, files>>
cache == <<ssh_user, ssh_key_path, ssh_passphrase>>
args == <<name, gpu_count, timeout, interval, kind>>
waitObs == <<nStatus, nSleep, lastReply, firstAddr, outcome, apiError>>
netFields == <<public_ip, port, elapsed>>
execObs == <<execs, result, stream, ssh, io, call, boot, runs, sio>>

\* ------------------------------------------------------------ helpers
\* os.path.expanduser on the key path
ExpandUser(p) == IF p = "~/k" THEN "/home/k" ELSE IF p = "~/.ssh/id_ed25519" THEN "/home/.ssh/id_ed25519" ELSE p

\* os.getenv(name, default)
GetEnv(v, default) == IF v = None THEN default ELSE v[1]

\* any(pod.get("name") == self.name for pod in self.pods), False on an empty list
AnyNamed(ps, n) == ps # <<>> /\ \E i \in 1..Len(ps) : ps[i].name = n

\* a slip in the attach: the first listed pod is taken, whatever its name
FirstListed(ps, n) == ps[1].id

\* next((pod for pod in self.pods if pod.get('name') == self.name), None)["id"]
FirstNamed(ps, n) ==
    LET i == CHOOSE k \in 1..Len(ps) :
                 ps[k].name = n /\ \A j \in 1..(k - 1) : ps[j].name # n
    IN  ps[i].id

\* the saturating count of an unbounded loop's iterations
Bump(n) == IF n <= MaxTimeout THEN n + 1 ELSE n

\* ------------------------------------------------------------- Init
\* the arguments of the live controllers, from the set S (the others hold one value)
Args(S, live) ==
    {f \in [Procs -> S] : \A c \in Procs \ live : f[c] = CHOOSE x \in S : TRUE}

InitWith(names, gpus, timeouts, intervals, kinds, fs, live) ==
    /\ inventory \in {<<>>, <<[id |-> 1, name |-> "a"]>>}
    /\ nextId = Len(inventory) + 1
    /\ env = [user |-> None, key |-> None]
    /\ envChanges = 0
    /\ files \in fs
    /\ ssh_user = None /\ ssh_key_path = None /\ ssh_passphrase = None
    /\ name \in Args(names, live)
    /\ gpu_count \in Args(gpus, live)
    /\ timeout \in Args(timeouts, live)
    /\ interval \in Args(intervals, live)
    /\ kind \in Args(kinds, live)
    /\ pc = [c \in Procs |-> IF c \in live THEN "new" ELSE "absent"]
    /\ loc = [c \in Procs |-> NoLocals]
    /\ pods = [c \in Procs |-> <<>>]
    /\ id = [c \in Procs |-> None]
    /\ public_ip = [c \in Procs |-> None]
    /\ port = [c \in Procs |-> None]
    /\ elapsed = [c \in Procs |-> 0]
    /\ order = [c \in Procs |-> 0]
    /\ started = 0
    /\ nList = [c \in Procs |-> 0]
    /\ nCreate = [c \in Procs |-> 0]
    /\ nStatus = [c \in Procs |-> 0]
    /\ nSleep = [c \in Procs |-> 0]
    /\ lastReply = [c \in Procs |-> NoReply]
    /\ firstAddr = [c \in Procs |-> 0]
    /\ outcome = [c \in Procs |-> "none"]
    /\ apiError = [c \in Procs |-> "none"]
    /\ prompts = 0
    /\ nTerminate = [c \in Procs |-> 0]
    /\ execs = [c \in Procs |-> 0]
    /\ result = [c \in Procs |-> NoResult]
    /\ stream = [c \in Procs |-> FALSE]
    /\ ssh = [c \in Procs |-> "none"]
    /\ io = [c \in Procs |-> NoIo]
    /\ call = [c \in Procs |-> "none"]
    /\ boot = [c \in Procs |-> "none"]
    /\ runs = [c \in Procs |-> 0]
    /\ sio = [c \in Procs |-> NoStream]

\* ------------------------------------------------- Pod.__init__ (27-101)
\* lines 50-65: the instantiation starts and stores its arguments
Start(c) ==
    /\ pc[c] = "new"
    /\ pc' = [pc EXCEPT ![c] = "ssh_check"]
    /\ started' = started + 1
    /\ order' = [order EXCEPT ![c] = started + 1]
    /\ UNCHANGED <<provider, environment, cache, args, loc, pods, id,
                   netFields, nList, nCreate, waitObs, prompts, nTerminate,
                   execObs>>

\* _get_user_ssh, lines 110-115: the cache test
CacheHit == TruthyStr(ssh_user) /\ TruthyStr(ssh_key_path) /\ TruthyStr(ssh_passphrase)

GetUserSshCheck(c) ==
    /\ pc[c] = "ssh_check"
    /\ pc' = [pc EXCEPT ![c] = IF CacheHit THEN "list" ELSE "ssh_prompt"]
    /\ UNCHANGED <<provider, environment, cache, args, loc, pods, id,
                   netFields, order, started, nList, nCreate, waitObs,
                   prompts, nTerminate, execObs>>

\* _get_user_ssh, lines 117-124: read the environment, prompt the operator
GetUserSshPrompt(c) ==
    /\ pc[c] = "ssh_prompt"
    /\ \E p \in Passphrases :
          loc' = [loc EXCEPT ![c] =
                    [user |-> GetEnv(env.user, "root"),
                     key  |-> ExpandUser(GetEnv(env.key, "~/.ssh/id_ed25519")),
                     pass |-> p]]
    /\ prompts' = prompts + 1
    /\ pc' = [pc EXCEPT ![c] = "ssh_store"]
    /\ UNCHANGED <<provider, environment, cache, args, pods, id, netFields,
                   order, started, nList, nCreate, waitObs, nTerminate,
                   execObs>>

\* _get_user_ssh, lines 126-129: store on the class
GetUserSshStore(c) ==
    /\ pc[c] = "ssh_store"
    /\ ssh_user' = Some(loc[c].user)
    /\ ssh_key_path' = Some(loc[c].key)
    /\ ssh_passphrase' = Some(loc[c].pass)
    /\ loc' = [loc EXCEPT ![c] = NoLocals]
    /\ pc' = [pc EXCEPT ![c] = "list"]
    /\ UNCHANGED <<provider, environment, args, pods, id, netFields,
                   order, started, nList, nCreate, waitObs, prompts,
                   nTerminate, execObs>>

\* a slip in _pod_exists: only the first listed pod is compared
PodExistsFirstOnly(ps, n) == ps # <<>> /\ ps[1].name = n

\* _pod_exists (131-137): the value it returns on the listed pods
PodExistsResult(ps, n) == AnyNamed(ps, n)

PodExists(c) ==
    /\ pc[c] = "list"
    /\ pods' = [pods EXCEPT ![c] = inventory]
    /\ nList' = [nList EXCEPT ![c] = @ + 1]
    /\ IF PodExistsResult(inventory, name[c])
          THEN /\ id' = [id EXCEPT ![c] = Some(FirstNamed(inventory, name[c]))]
               /\ pc' = [pc EXCEPT ![c] = "wait"]
          ELSE /\ id' = id
               /\ pc' = [pc EXCEPT ![c] = "create"]
    /\ UNCHANGED <<provider, environment, cache, args, loc, netFields, order,
                   started, nCreate, waitObs, prompts, nTerminate, execObs>>

\* runpod.get_pods() raises (133): no handler, the constructor raises
PodExistsError(c) ==
    /\ pc[c] = "list"
    /\ nList' = [nList EXCEPT ![c] = @ + 1]
    /\ apiError' = [apiError EXCEPT ![c] = "list"]
    /\ pc' = [pc EXCEPT ![c] = "failed"]
    /\ UNCHANGED <<provider, environment, cache, args, loc, pods, id,
                   netFields, order, started, nCreate, nStatus, nSleep,
                   lastReply, firstAddr, outcome, prompts, nTerminate,
                   execObs>>

\* runpod.create_pod raises (86-98): no pod is registered, the constructor raises
CreatePodError(c) ==
    /\ pc[c] = "create"
    /\ nCreate' = [nCreate EXCEPT ![c] = @ + 1]
    /\ apiError' = [apiError EXCEPT ![c] = "create"]
    /\ pc' = [pc EXCEPT ![c] = "failed"]
    /\ UNCHANGED <<provider, environment, cache, args, loc, pods, id,
                   netFields, order, started, nList, nStatus, nSleep,
                   lastReply, firstAddr, outcome, prompts, nTerminate,
                   execObs>>

\* runpod.create_pod (86-99): the provider registers a new pod under the name
CreatePod(c) ==
    /\ pc[c] = "create"
    /\ inventory' = Append(inventory, [id |-> nextId, name |-> name[c]])
    /\ nextId' = nextId + 1
    /\ id' = [id EXCEPT ![c] = Some(nextId)]
    /\ nCreate' = [nCreate EXCEPT ![c] = @ + 1]
    /\ pc' = [pc EXCEPT ![c] = "wait"]
    /\ UNCHANGED <<environment, cache, args, loc, pods, netFields, order,
                   started, nList, waitObs, prompts, nTerminate, execObs>>

\* ------------------------------------------- _get_tcp_port (160-179)
\* a slip in _get_tcp_port: the raw mapping is returned for every pod
GetTcpPortRaw(reply, gpus) ==
    IF TruthyStr(reply.publicIp)
      THEN <<reply.publicIp, Some(reply.raw)>>
      ELSE <<reply.publicIp, None>>

\* the (ip, port) pair computed from a status answer
GetTcpPort(reply, gpus) ==
    IF TruthyStr(reply.publicIp)
      THEN <<reply.publicIp,
             Some(IF TruthyInt(gpus) THEN reply.raw - 1 ELSE reply.raw)>>
      ELSE <<reply.publicIp, None>>

\* ------------------------------------------- _wait_for_pod (139-158)
\* line 150: the test that ends the poll
Ready(ip, p) == TruthyStr(ip) /\ TruthyInt(p)

\* a slip in the loop condition: one check too many
WaitingInclusive(e, t) == e <= t

\* line 147: the loop condition
Waiting(e, t) == e < t

\* line 156: elapsed += interval
Advance(e, i) == e + i

\* a slip after the readiness test: the return is missing, the loop goes on
AfterWaitLoop(c) == "wait"

\* where _wait_for_pod returns to: the end of Pod.__init__ (80, 101), after
\* which FinetunePod.__init__ goes on with _write_dotenv (306)
AfterWait(c) == IF kind[c] = "Pod" THEN "constructed" ELSE "dotenv"

\* a slip around the status query: the error is swallowed and the poll goes on
AfterStatusErrorRetry == "wait"

\* no handler around the status query (149, 168-172): the constructor raises
AfterStatusError == "failed"

\* one iteration of the loop (147-156): status query, test, sleep
WaitCheck(c) ==
    /\ pc[c] = "wait"
    /\ Waiting(elapsed[c], timeout[c])
    /\ \E reply \in StatusReplies :
         LET got == GetTcpPort(reply, gpu_count[c]) IN
         /\ public_ip' = [public_ip EXCEPT ![c] = got[1]]
         /\ port' = [port EXCEPT ![c] = got[2]]
         /\ lastReply' = [lastReply EXCEPT ![c] = reply]
         /\ firstAddr' = [firstAddr EXCEPT ![c] =
                IF @ = 0 /\ TruthyStr(reply.publicIp) THEN Bump(nStatus[c]) ELSE @]
         /\ nStatus' = [nStatus EXCEPT ![c] = Bump(@)]
         /\ IF Ready(got[1], got[2])
              THEN \* return (153)
                   /\ outcome' = [outcome EXCEPT ![c] = "Reachable"]
                   /\ pc' = [pc EXCEPT ![c] = AfterWait(c)]
                   /\ UNCHANGED <<elapsed, nSleep>>
              ELSE IF interval[c] < 0
              THEN \* time.sleep raises ValueError on a negative length
                   /\ outcome' = [outcome EXCEPT ![c] = "SleepError"]
                   /\ pc' = [pc EXCEPT ![c] = "failed"]
                   /\ UNCHANGED <<elapsed, nSleep>>
              ELSE /\ nSleep' = [nSleep EXCEPT ![c] = Bump(@)]
                   /\ elapsed' = [elapsed EXCEPT ![c] = Advance(@, interval[c])]
                   /\ UNCHANGED <<outcome, pc>>
    /\ UNCHANGED <<provider, environment, cache, args, loc, pods, id, order,
                   started, nList, nCreate, apiError, prompts, nTerminate,
                   execObs>>

\* the status query fails (168-172: request error, malformed answer): it raises
WaitStatusError(c) ==
    /\ pc[c] = "wait"
    /\ Waiting(elapsed[c], timeout[c])
    /\ nStatus' = [nStatus EXCEPT ![c] = Bump(@)]
    /\ outcome' = [outcome EXCEPT ![c] = "StatusError"]
    /\ apiError' = [apiError EXCEPT ![c] = "status"]
    /\ pc' = [pc EXCEPT ![c] = AfterStatusError]
    /\ UNCHANGED <<provider, environment, cache, args, loc, pods, id,
                   netFields, order, started, nList, nCreate, nSleep,
                   lastReply, firstAddr, prompts, nTerminate, execObs>>

\* a slip on the timeout path: the node that never came up is torn down
WaitTimedOutCleanup(c) ==
    /\ pc[c] = "wait"
    /\ ~Waiting(elapsed[c], timeout[c])
    /\ outcome' = [outcome EXCEPT ![c] = "TimedOut"]
    /\ pc' = [pc EXCEPT ![c] = AfterWait(c)]
    /\ nTerminate' = [nTerminate EXCEPT ![c] = @ + 1]
    /\ inventory' = SelectSeq(inventory, LAMBDA pod : pod.id # id[c][1])
    /\ UNCHANGED <<nextId, environment, cache, args, loc, pods, id,
                   netFields, order, started, nList, nCreate, nStatus,
                   nSleep, lastReply, firstAddr, apiError, prompts,
                   execObs>>

\* the loop condition fails (147): log the timeout (158) and return
WaitTimedOut(c) ==
    /\ pc[c] = "wait"
    /\ ~Waiting(elapsed[c], timeout[c])
    /\ outcome' = [outcome EXCEPT ![c] = "TimedOut"]
    /\ pc' = [pc EXCEPT ![c] = AfterWait(c)]
    /\ UNCHANGED <<provider, environment, cache, args, loc, pods, id,
                   netFields, order, started, nList, nCreate, nStatus,
                   nSleep, lastReply, firstAddr, apiError, prompts,
                   nTerminate, execObs>>

\* ------------------------------------------------- execute (220-266)
Whitespace == {" ", "\n", "\t"}

RECURSIVE LStrip(_)
LStrip(t) == IF t # <<>> /\ Head(t) \in Whitespace THEN LStrip(Tail(t)) ELSE t

RECURSIVE RStrip(_)
RStrip(t) ==
    IF t # <<>> /\ t[Len(t)] \in Whitespace
      THEN RStrip(SubSeq(t, 1, Len(t) - 1)) ELSE t

\* a slip in the trimming: only the leading whitespace is removed
StripLeading(t) == LStrip(t)

\* str.strip()
Strip(t) == RStrip(LStrip(t))

\* a slip in _connect_ssh: a missing port falls back to the default one
ConnectableAnyPort(ip, p, key) == TruthyStr(ip) /\ key

\* ssh.connect (185-191) can open a session: to an address and a port that
\* are populated, with the key file given as key_filename in place
Connectable(ip, p, key) == TruthyStr(ip) /\ TruthyInt(p) /\ key

\* execute up to exec_command (228-230) with _connect_ssh (181-192), called
\* by who with the stream argument st.  Where no session can open, or when
\* the host cannot be reached or rejects the key, connect raises, and no
\* handler catches it
ConnectSsh(c, who, st) ==
    /\ call' = [call EXCEPT ![c] = who]
    /\ stream' = [stream EXCEPT ![c] = st]
    /\ execs' = [execs EXCEPT ![c] = IF who = "dotenv" THEN @ ELSE @ + 1]
    /\ \/ /\ Connectable(public_ip[c], port[c], files.key)
          /\ ssh' = [ssh EXCEPT ![c] = "open"]
          /\ pc' = [pc EXCEPT ![c] = "exec"]
          /\ runs' = [runs EXCEPT ![c] = IF who = "run" THEN @ + 1 ELSE @]
          /\ sio' = [sio EXCEPT ![c] = IF st THEN Running ELSE NoStream]
          /\ UNCHANGED <<result, boot>>
       \/ /\ result' = [result EXCEPT ![c] = [how |-> "raised", value |-> None]]
          /\ boot' = [boot EXCEPT ![c] = IF who = "dotenv" THEN "raised" ELSE @]
          /\ pc' = [pc EXCEPT ![c] = IF who = "dotenv" THEN "failed" ELSE @]
          /\ UNCHANGED <<ssh, runs, sio>>
    /\ UNCHANGED <<provider, environment, cache, args, loc, pods, id,
                   netFields, order, started, nList, nCreate, waitObs,
                   prompts, nTerminate, io>>

\* the caller calls execute(command, stream) on a constructed node
Execute(c) ==
    /\ pc[c] = "constructed"
    /\ execs[c] < MaxExecs
    /\ \E st \in BOOLEAN : ConnectSsh(c, "execute", st)

\* a slip in the classification: the error stream counts only without output
BufferedResultOutFirst(out, err) ==
    IF err # <<>> /\ out = <<>> THEN None ELSE Some(Strip(out))

\* lines 262-266: the value of a buffered execute
BufferedResult(out, err) == IF err # <<>> THEN None ELSE Some(Strip(out))

\* buffered mode (257-266): read both streams, close, classify
ExecBuffered(c) ==
    /\ pc[c] = "exec"
    /\ ~stream[c]
    /\ \E out \in Texts, err \in Texts, ex \in ExitStatuses :
         /\ io' = [io EXCEPT ![c] =
                      [out |-> out, err |-> err, exit |-> ex, stream |-> FALSE]]
         /\ result' = [result EXCEPT ![c] =
                          [how |-> "returned", value |-> BufferedResult(out, err)]]
         \* _write_dotenv drops the value of its execute (218)
         /\ boot' = [boot EXCEPT ![c] =
                IF call[c] # "dotenv" THEN @
                ELSE IF BufferedResult(out, err) = None THEN "marker" ELSE "ok"]
    /\ ssh' = [ssh EXCEPT ![c] = "closed"]
    /\ pc' = [pc EXCEPT ![c] = "constructed"]
    /\ UNCHANGED <<provider, environment, cache, args, loc, pods, id,
                   netFields, order, started, nList, nCreate, waitObs,
                   prompts, nTerminate, execs, stream, call, runs, sio>>

\* exec_command raises (230), or in buffered mode a read or a decode of the
\* output or the error stream raises (257-258): the exception leaves execute
\* before ssh.close() (260) and outside the try of the streaming branch
ExecErrorUnclosed(c) ==
    /\ pc[c] = "exec"
    /\ stream[c] => sio[c] = Running
    /\ result' = [result EXCEPT ![c] = [how |-> "raised", value |-> None]]
    /\ boot' = [boot EXCEPT ![c] = IF call[c] = "dotenv" THEN "raised" ELSE @]
    /\ pc' = [pc EXCEPT ![c] = IF call[c] = "dotenv" THEN "failed" ELSE "constructed"]
    /\ UNCHANGED <<provider, environment, cache, args, loc, pods, id,
                   netFields, order, started, nList, nCreate, waitObs,
                   prompts, nTerminate, execs, stream, ssh, io, call, runs,
                   sio>>

\* ---- streaming mode (232-255)
\* a recv, a read or a decode raises inside the try (235-246): the finally
\* clause closes the session (254-255) and the exception leaves execute
ExecStreamError(c) ==
    /\ pc[c] = "exec" /\ stream[c]
    /\ result' = [result EXCEPT ![c] = [how |-> "raised", value |-> None]]
    /\ ssh' = [ssh EXCEPT ![c] = "closed"]
    /\ pc' = [pc EXCEPT ![c] = "constructed"]
    /\ UNCHANGED <<provider, environment, cache, args, loc, pods, id,
                   netFields, order, started, nList, nCreate, waitObs,
                   prompts, nTerminate, execs, stream, io, call, boot, runs,
                   sio>>

\* the remote process writes a chunk: it arrives on the channel
RemoteWrite(c) ==
    /\ pc[c] = "exec" /\ stream[c]
    /\ sio[c].proc = "running"
    /\ Len(sio[c].sent) < MaxChunks
    /\ LET chunk == [n |-> Len(sio[c].sent) + 1, at |-> "running"] IN
       sio' = [sio EXCEPT ![c].sent = Append(@, chunk),
                          ![c].chan = Append(@, chunk)]
    /\ UNCHANGED <<provider, environment, cache, args, pc, loc, pods, id,
                   netFields, order, started, nList, nCreate, waitObs,
                   prompts, nTerminate, execs, result, stream, ssh, io,
                   call, boot, runs>>

\* the remote process exits: its exit status is ready on the channel
RemoteExit(c) ==
    /\ pc[c] = "exec" /\ stream[c]
    /\ sio[c].proc = "running"
    /\ sio' = [sio EXCEPT ![c].proc = "exited"]
    /\ UNCHANGED <<provider, environment, cache, args, pc, loc, pods, id,
                   netFields, order, started, nList, nCreate, waitObs,
                   prompts, nTerminate, execs, result, stream, ssh, io,
                   call, boot, runs>>

\* output the pseudo-terminal still held arrives after the exit status
RemoteFlush(c) ==
    /\ pc[c] = "exec" /\ stream[c]
    /\ sio[c].proc = "exited"
    /\ Len(sio[c].sent) < MaxChunks
    /\ LET chunk == [n |-> Len(sio[c].sent) + 1, at |-> "exited"] IN
       sio' = [sio EXCEPT ![c].sent = Append(@, chunk),
                          ![c].chan = Append(@, chunk)]
    /\ UNCHANGED <<provider, environment, cache, args, pc, loc, pods, id,
                   netFields, order, started, nList, nCreate, waitObs,
                   prompts, nTerminate, execs, result, stream, ssh, io,
                   call, boot, runs>>

\* a slip in the loop: the chunk received is kept back, not printed
RelayHeld(w, chunk) == w

\* line 238: print(chunk, end="", flush=True)
Relay(w, chunk) == Append(w, chunk)

\* one iteration of the loop (235-238) that finds the exit status not
\* ready and a chunk received: the chunk is printed (an iteration that
\* finds neither changes nothing)
StreamRelay(c) ==
    /\ pc[c] = "exec" /\ stream[c]
    /\ ~sio[c].seen
    /\ sio[c].proc = "running"
    /\ sio[c].chan # <<>>
    /\ sio' = [sio EXCEPT ![c].written = Relay(@, Head(sio[c].chan)),
                          ![c].chan = Tail(@)]
    /\ UNCHANGED <<provider, environment, cache, args, pc, loc, pods, id,
                   netFields, order, started, nList, nCreate, waitObs,
                   prompts, nTerminate, execs, result, stream, ssh, io,
                   call, boot, runs>>

\* the loop condition (235) finds the exit status ready: the loop ends
StreamExitSeen(c) ==
    /\ pc[c] = "exec" /\ stream[c]
    /\ ~sio[c].seen
    /\ sio[c].proc = "exited"
    /\ sio' = [sio EXCEPT ![c].seen = TRUE, ![c].live = Len(sio[c].written)]
    /\ UNCHANGED <<provider, environment, cache, args, pc, loc, pods, id,
                   netFields, order, started, nList, nCreate, waitObs,
                   prompts, nTerminate, execs, result, stream, ssh, io,
                   call, boot, runs>>

\* after the loop (240-255): read and print what is left of the output,
\* read the error text, close the session; returns None on either path
ExecStream(c) ==
    /\ pc[c] = "exec" /\ stream[c]
    /\ sio[c].seen
    /\ sio' = [sio EXCEPT ![c].written = @ \o sio[c].chan, ![c].chan = <<>>]
    /\ \E err \in StreamErrs, ex \in ExitStatuses :
         io' = [io EXCEPT ![c] =
                   [out |-> <<>>, err |-> err, exit |-> ex, stream |-> TRUE]]
    /\ result' = [result EXCEPT ![c] = [how |-> "returned", value |-> None]]
    /\ ssh' = [ssh EXCEPT ![c] = "closed"]
    /\ pc' = [pc EXCEPT ![c] = "constructed"]
    /\ UNCHANGED <<provider, environment, cache, args, loc, pods, id,
                   netFields, order, started, nList, nCreate, waitObs,
                   prompts, nTerminate, execs, stream, call, boot, runs>>

\* ------------------------------- FinetunePod (277-322), _write_dotenv
\* _write_dotenv (200-203): without a local .env it logs an error and returns
WriteDotenvMissing(c) ==
    /\ pc[c] = "dotenv"
    /\ ~files.dotenv
    /\ boot' = [boot EXCEPT ![c] = "skipped"]
    /\ pc' = [pc EXCEPT ![c] = "constructed"]
    /\ UNCHANGED <<provider, environment, cache, args, loc, pods, id,
                   netFields, order, started, nList, nCreate, waitObs,
                   prompts, nTerminate, execs, result, stream, ssh, io,
                   call, runs, sio>>

\* _write_dotenv (205-218): the file is pushed with a buffered execute
WriteDotenv(c) ==
    /\ pc[c] = "dotenv"
    /\ files.dotenv
    /\ ConnectSsh(c, "dotenv", FALSE)

\* finetune (308-322): the run command, with a streaming execute
Finetune(c) ==
    /\ pc[c] = "constructed"
    /\ kind[c] = "FinetunePod"
    /\ execs[c] < MaxExecs
    /\ ConnectSsh(c, "run", TRUE)

\* ---------------------------------------------------- kill (268-275)
\* a slip in kill: the first listed pod is terminated, not the one held
WithoutFirst(inv, i) == IF inv = <<>> THEN inv ELSE Tail(inv)

\* runpod.terminate_pod(self.id): the provider drops the pod from its inventory
Without(inv, i) == SelectSeq(inv, LAMBDA pod : pod.id # i)

Kill(c) ==
    /\ pc[c] = "constructed"
    /\ nTerminate[c] < MaxKills
    /\ nTerminate' = [nTerminate EXCEPT ![c] = @ + 1]
    /\ inventory' = Without(inventory, id[c][1])
    /\ UNCHANGED <<nextId, environment, cache, args, pc, loc, pods, id,
                   netFields, order, started, nList, nCreate, waitObs,
                   prompts, execObs>>

\* controller c is between two calls: no constructor or method of it is running
AtRest(c) == pc[c] \in {"absent", "new", "constructed", "failed"}

\* no other controller is inside a call: the calls of one thread
Alone(c) == \A d \in Procs \ {c} : AtRest(d)

\* ------------------------------------------------------ environment
\* the caller rewrites the process environment (os.environ, or .env before
\* load_dotenv) between two calls, while an instantiation is still to come
ChangeEnv ==
    /\ \A c \in Procs : AtRest(c)
    /\ \E c \in Procs : pc[c] = "new"
    /\ envChanges < MaxEnvChanges
    /\ envChanges' = envChanges + 1
    /\ \E e \in [user : EnvUsers, key : EnvKeys] : e # env /\ env' = e
    /\ UNCHANGED <<provider, files, cache, args, pc, loc, pods, id,
                   netFields, order, started, nList, nCreate, waitObs,
                   prompts, nTerminate, execObs>>

\* ------------------------------------------------------------ specs
\* one controller from instantiation to kill, every remote command served
\* (exec_command and the reads of its streams return)
Next ==
    \/ \E c \in Procs : Start(c)
    \/ \E c \in Procs : GetUserSshCheck(c)
    \/ \E c \in Procs : GetUserSshPrompt(c)
    \/ \E c \in Procs : GetUserSshStore(c)
    \/ \E c \in Procs : PodExists(c)
    \/ \E c \in Procs : PodExistsError(c)
    \/ \E c \in Procs : CreatePod(c)
    \/ \E c \in Procs : CreatePodError(c)
    \/ \E c \in Procs : WaitCheck(c)
    \/ \E c \in Procs : WaitStatusError(c)
    \/ \E c \in Procs : WaitTimedOut(c)
    \/ \E c \in Procs : Execute(c)
    \/ \E c \in Procs : ExecBuffered(c)
    \/ \E c \in Procs : RemoteWrite(c)
    \/ \E c \in Procs : RemoteExit(c)
    \/ \E c \in Procs : RemoteFlush(c)
    \/ \E c \in Procs : StreamRelay(c)
    \/ \E c \in Procs : StreamExitSeen(c)
    \/ \E c \in Procs : ExecStream(c)
    \/ \E c \in Procs : Kill(c)
    \/ ChangeEnv
Init == InitWith(Names, OneGpuCount, FewTimeouts, FewIntervals, OnlyPod, AllFiles, {1})
Spec == Init /\ [][Next]_vars

\* one task-execution node from instantiation to kill, on every state of
\* the local files, with remote commands that fail to start or to be read
TaskNext ==
    \/ \E c \in Procs : Start(c)
    \/ \E c \in Procs : GetUserSshCheck(c)
    \/ \E c \in Procs : GetUserSshPrompt(c)
    \/ \E c \in Procs : GetUserSshStore(c)
    \/ \E c \in Procs : PodExists(c)
    \/ \E c \in Procs : PodExistsError(c)
    \/ \E c \in Procs : CreatePod(c)
    \/ \E c \in Procs : CreatePodError(c)
    \/ \E c \in Procs : WaitCheck(c)
    \/ \E c \in Procs : WaitStatusError(c)
    \/ \E c \in Procs : WaitTimedOut(c)
    \/ \E c \in Procs : WriteDotenvMissing(c)
    \/ \E c \in Procs : WriteDotenv(c)
    \/ \E c \in Procs : Execute(c)
    \/ \E c \in Procs : Finetune(c)
    \/ \E c \in Procs : ExecBuffered(c)
    \/ \E c \in Procs : ExecErrorUnclosed(c)
    \/ \E c \in Procs : ExecStreamError(c)
    \/ \E c \in Procs : RemoteWrite(c)
    \/ \E c \in Procs : RemoteExit(c)
    \/ \E c \in Procs : RemoteFlush(c)
    \/ \E c \in Procs : StreamRelay(c)
    \/ \E c \in Procs : StreamExitSeen(c)
    \/ \E c \in Procs : ExecStream(c)
    \/ \E c \in Procs : Kill(c)
TaskInit == InitWith({"a"}, OneGpuCount, FewTimeouts, FewIntervals, OnlyFinetunePod, Files, {1})
TaskSpec == TaskInit /\ [][TaskNext]_vars

\* one controller's instantiation, every argument of _wait_for_pod explored
WaitNext ==
    \/ \E c \in Procs : Start(c)
    \/ \E c \in Procs : GetUserSshCheck(c)
    \/ \E c \in Procs : GetUserSshPrompt(c)
    \/ \E c \in Procs : GetUserSshStore(c)
    \/ \E c \in Procs : PodExists(c)
    \/ \E c \in Procs : PodExistsError(c)
    \/ \E c \in Procs : CreatePod(c)
    \/ \E c \in Procs : CreatePodError(c)
    \/ \E c \in Procs : WaitCheck(c)
    \/ \E c \in Procs : WaitStatusError(c)
    \/ \E c \in Procs : WaitTimedOut(c)
WaitInit == InitWith({"a"}, GpuCounts, Timeouts, Intervals, OnlyPod, AllFiles, {1})
WaitSpec == WaitInit /\ [][WaitNext]_vars

\* the instantiating thread is not starved: a step that can be taken is taken
FairWaitSpec == WaitSpec /\ WF_vars(WaitNext)

\* controllers instantiated (and killed) in threads of their own
ThreadNext ==
    \/ \E c \in Procs : Start(c)
    \/ \E c \in Procs : GetUserSshCheck(c)
    \/ \E c \in Procs : GetUserSshPrompt(c)
    \/ \E c \in Procs : GetUserSshStore(c)
    \/ \E c \in Procs : PodExists(c)
    \/ \E c \in Procs : CreatePod(c)
    \/ \E c \in Procs : WaitTimedOut(c)
    \/ \E c \in Procs : Kill(c)
    \/ ChangeEnv
ThreadInit == InitWith(Names, OneGpuCount, NoTimeout, FewIntervals, OnlyPod, AllFiles, Procs)
ThreadSpec == ThreadInit /\ [][ThreadNext]_vars

\* the same controllers instantiated (and killed) one call after the other
SeqNext ==
    \/ \E c \in Procs : Alone(c) /\ Start(c)
    \/ \E c \in Procs : Alone(c) /\ GetUserSshCheck(c)
    \/ \E c \in Procs : Alone(c) /\ GetUserSshPrompt(c)
    \/ \E c \in Procs : Alone(c) /\ GetUserSshStore(c)
    \/ \E c \in Procs : Alone(c) /\ PodExists(c)
    \/ \E c \in Procs : Alone(c) /\ CreatePod(c)
    \/ \E c \in Procs : Alone(c) /\ WaitTimedOut(c)
    \/ \E c \in Procs : Alone(c) /\ Kill(c)
    \/ ChangeEnv
SeqSpec == ThreadInit /\ [][SeqNext]_vars

\* ------------------------------------------------------------ claims
\* the constructor of c has returned normally
Built(c) == pc[c] = "constructed"

\* no terminate request was issued for pod i
NotKilled(i) == \A c \in Procs : id[c] = i => nTerminate[c] = 0

\* C1: of two instantiations with the same name made one after the other
\* (the first one's pod not terminated), the second holds the same provider
\* id as the first and issued no create request.
C1_SecondAttaches ==
    \A c1, c2 \in Procs :
        (/\ Built(c1) /\ Built(c2)
         /\ order[c1] < order[c2]
         /\ name[c1] = name[c2]
         /\ NotKilled(id[c1]))
        => (id[c2] = id[c1] /\ nCreate[c2] = 0)

C1_Witness ==
    \E c1, c2 \in Procs :
        /\ Built(c1) /\ Built(c2)
        /\ order[c1] < order[c2]
        /\ name[c1] = name[c2]
        /\ nCreate[c1] = 1 /\ nList[c2] = 1
        /\ id[c2] = id[c1] /\ nCreate[c2] = 0

\* C2: at most one active pod of the provider inventory carries a given
\* name, in every state, also when the instantiations run in threads.
C2_UniqueNames ==
    \A i, j \in 1..Len(inventory) :
        i # j => inventory[i].name # inventory[j].name

\* the node has one or more GPUs attached
HasGpu(c) == gpu_count[c] # None /\ gpu_count[c][1] >= 1

\* C3: after a status answer with an address and raw mapped port p, the
\* port field is p - 1 on a node with one or more GPUs and p on a node
\* without.
C3_PortCorrection ==
    \A c \in Procs :
        TruthyStr(lastReply[c].publicIp)
        => port[c] = Some(IF HasGpu(c) THEN lastReply[c].raw - 1
                                       ELSE lastReply[c].raw)

C3_Witness ==
    \E c \in Procs :
        /\ gpu_count[c] = Some(1)
        /\ lastReply[c].publicIp = Some("10.0.0.1") /\ lastReply[c].raw = 22
        /\ port[c] = Some(21)

\* ceil(t / i) for t >= 0 and i >= 1
CeilDiv(t, i) == (t + i - 1) \div i

\* C4: a poll (timeout >= 0, interval >= 1) whose status queries all return
\* and never carry an address ends in TimedOut, with the constructor
\* returning normally, after exactly ceil(timeout / interval) status checks.
C4_TimedOutAfterCeil ==
    \A c \in Procs :
        (/\ outcome[c] \notin {"none", "StatusError"}
         /\ firstAddr[c] = 0
         /\ interval[c] >= 1)
        => (/\ outcome[c] = "TimedOut"
            /\ Built(c)
            /\ nStatus[c] = CeilDiv(timeout[c], interval[c]))

C4_Witness ==
    \E c \in Procs :
        /\ timeout[c] = 10 /\ interval[c] = 2
        /\ outcome[c] = "TimedOut" /\ firstAddr[c] = 0
        /\ nStatus[c] = 5

\* C5: a poll whose status query first carries an address on the k-th
\* check (k up to MaxTimeout, where the counts are exact) has returned at
\* that check: Reachable, k status checks, k - 1 sleeps, elapsed =
\* (k - 1) * interval.
C5_ReturnsAtFirstAddress ==
    \A c \in Procs :
        firstAddr[c] \in 1..MaxTimeout
        => (/\ outcome[c] = "Reachable"
            /\ nStatus[c] = firstAddr[c]
            /\ nSleep[c] = firstAddr[c] - 1
            /\ elapsed[c] = (firstAddr[c] - 1) * interval[c])

\* C6: provided every status query returns, the poll ends after finitely
\* many checks, for every timeout and every interval (a provider request
\* that raises, a sleep that raises and a return all end it).
C6_Terminates == \A c \in {1} : <>(outcome[c] # "none" \/ apiError[c] # "none")

\* C7: when the poll has ended in TimedOut, the address and the port field
\* are both undefined.
C7_UndefinedOnTimeout ==
    \A c \in Procs :
        outcome[c] = "TimedOut" => (~TruthyStr(public_ip[c]) /\ port[c] = None)

\* C8: the passphrase prompt is invoked at most once over the
\* instantiations of one process, whatever passphrase is entered.
C8_PromptOnce == prompts <= 1

\* user, key path and passphrase have all been stored on the class
Resolved == ssh_user # None /\ ssh_key_path # None /\ ssh_passphrase # None

\* C9: once the credentials are resolved, no step changes the cached user,
\* key path or passphrase.
C9_Immutable == [][Resolved => cache' = cache]_vars

\* C10: a buffered execute whose command wrote anything on the error
\* stream returned None, whatever it wrote on the output stream and
\* whatever its exit status.
C10_ErrorIsFailure ==
    \A c \in Procs :
        (result[c].how = "returned" /\ ~io[c].stream /\ io[c].err # <<>>)
        => result[c].value = None

C10_Witness ==
    \E c \in Procs :
        /\ result[c].how = "returned" /\ ~io[c].stream
        /\ io[c].err = <<" ">> /\ io[c].out = <<" ", "r", "\n">> /\ io[c].exit = 0
        /\ result[c].value = None

\* every character of t from position i to position j is whitespace
Blank(t, i, j) == \A k \in i..j : t[k] \in Whitespace

\* C11: a buffered execute whose command wrote nothing on the error stream
\* returned a text, never None, also when the output is empty: the output
\* without its leading and trailing whitespace (the result is a contiguous
\* part of the output, neither starts nor ends with whitespace, and all
\* that was cut before and after it is whitespace).
C11_TrimmedOutput ==
    \A c \in Procs :
        (result[c].how = "returned" /\ ~io[c].stream /\ io[c].err = <<>>)
        => /\ result[c].value # None
           /\ LET out == io[c].out
                  t == result[c].value[1]
              IN  /\ t # <<>> => (t[1] \notin Whitespace /\ t[Len(t)] \notin Whitespace)
                  /\ \E i \in 0..Len(out) :
                        /\ i + Len(t) <= Len(out)
                        /\ SubSeq(out, i + 1, i + Len(t)) = t
                        /\ Blank(out, 1, i)
                        /\ Blank(out, i + Len(t) + 1, Len(out))

C11_Witness ==
    \E c \in Procs :
        /\ result[c].how = "returned" /\ ~io[c].stream
        /\ io[c].err = <<>> /\ io[c].out = <<" ", "r", "\n">>
        /\ result[c].value = Some(<<"r">>)

C13_MissingKeyFailsFirst ==
    ~files.key =>
        \A c \in Procs :
            /\ pc[c] \in {"absent", "new", "ssh_check", "ssh_prompt", "ssh_store", "failed"}
            /\ nList[c] = 0 /\ nCreate[c] = 0 /\ nStatus[c] = 0
            /\ call[c] = "none"

\* C14: a provider request that raises (list, create or status) ends the
\* instantiation with that error, and the instantiation issues no further
\* provider request: a status query that raises during the poll is the
\* poll's last status query.
C14_RegistryErrorPropagates ==
    [][\A c \in Procs :
          apiError'[c] # "none"
          => /\ pc'[c] = "failed"
             /\ apiError[c] # "none"
                => (/\ nList'[c] = nList[c]
                    /\ nCreate'[c] = nCreate[c]
                    /\ nStatus'[c] = nStatus[c]
                    /\ apiError'[c] = apiError[c])]_vars

C14_Witness ==
    \E c \in Procs :
        /\ apiError[c] = "status" /\ outcome[c] = "StatusError"
        /\ timeout[c] = 10 /\ interval[c] = 1
        /\ nStatus[c] = 3 /\ nSleep[c] = 2
        /\ pc[c] = "failed"

\* C15: on a task-execution node whose readiness wait timed out, whose
\* local .env file is missing, or whose push of the environment file
\* returned None (the failure marker), the constructor does not return
\* normally and no run command is started.
C15_PreparationErrorAborts ==
    \A c \in Procs :
        (/\ kind[c] = "FinetunePod"
         /\ \/ outcome[c] = "TimedOut" /\ pc[c] # "dotenv"
            \/ boot[c] \in {"skipped", "marker"})
        => (pc[c] = "failed" /\ runs[c] = 0)

\* C16: a terminate request is issued by kill and by no other operation:
\* every step that counts a terminate request or takes a pod out of the
\* provider inventory is a step of kill, on the pod the controller holds.
C16_OnlyKillTerminates ==
    [][(\/ nTerminate' # nTerminate
        \/ \E i \in 1..Len(inventory) :
              \A j \in 1..Len(inventory') : inventory'[j] # inventory[i])
       => \E c \in Procs :
            /\ Kill(c)
            /\ \A i \in 1..Len(inventory') : inventory'[i].id # id[c][1]]_vars

C16_Witness ==
    \E c \in Procs :
        /\ nCreate[c] = 1 /\ outcome[c] = "Reachable"
        /\ boot[c] = "ok" /\ runs[c] = 1 /\ result[c].how = "returned"
        /\ nTerminate[c] = 1
        /\ \A i \in 1..Len(inventory) : inventory[i].id # id[c][1]

\* the last execute of c that got a session was a streamed one, and it returned
StreamReturned(c) ==
    pc[c] = "constructed" /\ result[c].how = "returned" /\ io[c].stream

\* C17 as stated: every chunk that arrived while the remote process was
\* still running is printed before the loop observes the exit; what is
\* unread at that moment, and what the drain prints afterwards, arrived
\* after the exit.  The call returns None.
C17_AllLiveBeforeExit ==
    \A c \in Procs :
        /\ sio[c].seen
           => /\ \A k \in 1..Len(sio[c].chan) : sio[c].chan[k].at # "running"
              /\ \A k \in (sio[c].live + 1)..Len(sio[c].written) :
                    sio[c].written[k].at # "running"
        /\ StreamReturned(c) => result[c].value = None

\* C17, amended: every chunk the loop receives is printed at once, in the
\* order written and with nothing held back (at every moment the chunks
\* printed followed by the chunks unread are the chunks written), so until
\* the exit is observed all that was received is already on the local
\* output; what is unread when the exit is observed, output of the running
\* process included, is printed by the drain, after which everything
\* written has been printed, and the call returns None.
C17_RelayedAsReceived ==
    \A c \in Procs :
        /\ sio[c].written \o sio[c].chan = sio[c].sent
        /\ ~sio[c].seen => sio[c].live = 0
        /\ sio[c].seen => sio[c].live <= Len(sio[c].written)
        /\ StreamReturned(c)
           => /\ result[c].value = None
              /\ sio[c].chan = <<>>
              /\ sio[c].written = sio[c].sent

\* output is on the local output stream while the command still runs
C17_Witness ==
    \E c \in Procs :
        /\ pc[c] = "exec" /\ stream[c]
        /\ sio[c].proc = "running" /\ ~sio[c].seen
        /\ sio[c].written = <<[n |-> 1, at |-> "running"]>>
        /\ sio[c].chan = <<[n |-> 2, at |-> "running"]>>

\* thread c is inside _get_user_ssh, past a failed cache test
Resolving(c) == pc[c] \in {"ssh_prompt", "ssh_store"}

\* C18: with the instantiations running in threads on an empty cache, at
\* most one thread resolves the credentials: no two threads are past the
\* cache test at once, the operator is prompted at most once, and the
\* cache is written by that one resolution only.
C18_PromptOnceInThreads ==
    /\ \A c1, c2 \in Procs : (Resolving(c1) /\ Resolving(c2)) => c1 = c2
    /\ Resolved => prompts <= 1

\* the lifecycle state of the node of c: Requested up to the end of
\* attach-or-create, Provisioning during the poll, then how the poll ended
Lifecycle(c) ==
    IF outcome[c] \in {"Reachable", "TimedOut"} THEN outcome[c]
    ELSE IF outcome[c] # "none" \/ apiError[c] # "none" THEN "Failed"
    ELSE IF pc[c] = "wait" THEN "Provisioning"
    ELSE "Requested"

\* C19: a node goes Requested, Provisioning, then Reachable or TimedOut.
\* Provisioning is entered from Requested only; TimedOut is entered from
\* Provisioning only; Reachable is entered from Provisioning only, in a
\* step whose status check returned an address and a port; and after
\* Reachable or TimedOut the wait makes no further status query and the
\* state does not change.
C19_Lifecycle ==
    [][\A c \in Procs :
          /\ Lifecycle(c)' # Lifecycle(c)
             => /\ Lifecycle(c)' = "Provisioning" => Lifecycle(c) = "Requested"
                /\ Lifecycle(c)' \in {"Reachable", "TimedOut"}
                   => Lifecycle(c) = "Provisioning"
                /\ Lifecycle(c)' = "Reachable"
                   => /\ nStatus'[c] # nStatus[c]
                      /\ TruthyStr(lastReply'[c].publicIp)
                      /\ public_ip'[c] = lastReply'[c].publicIp
                      /\ port'[c] # None
          /\ Lifecycle(c) \in {"Reachable", "TimedOut"}
             => /\ Lifecycle(c)' = Lifecycle(c)
                /\ nStatus'[c] = nStatus[c] /\ nSleep'[c] = nSleep[c]
                /\ public_ip'[c] = public_ip[c] /\ port'[c] = port[c]]_vars

C19_Witness ==
    \E c \in Procs :
        /\ Lifecycle(c) = "Reachable" /\ pc[c] = "constructed"
        /\ nCreate[c] = 1 /\ nStatus[c] = 2
        /\ ssh[c] = "closed" /\ nTerminate[c] = 1

\* C20: a wait that has ended in Reachable or TimedOut ended in Reachable
\* exactly if one of its status checks returned an address and a port,
\* whatever the raw port and its correction; and a Reachable node holds
\* the address and the (corrected) port of the check that ended the wait.
C20_ReachableIffAddressAndPort ==
    \A c \in Procs :
        outcome[c] \in {"Reachable", "TimedOut"}
        => /\ outcome[c] = "Reachable" <=> firstAddr[c] > 0
           /\ outcome[c] = "Reachable"
              => /\ public_ip[c] = lastReply[c].publicIp
                 /\ port[c] = Some(IF HasGpu(c) THEN lastReply[c].raw - 1
                                                ELSE lastReply[c].raw)

\* the pods that c was given by its list request and that carry its name
Matching(c) == {i \in 1..Len(pods[c]) : pods[c][i].name = name[c]}

\* C21: an instantiation issues one list request and at most one create
\* request; it issues the create request exactly if no listed pod carries
\* its name (an empty listing is no match); and the id it holds afterwards
\* is the id of a listed pod of that name on attach, and on create the id
\* of a pod that was not listed.
C21_AttachOrCreate ==
    \A c \in Procs :
        /\ nList[c] <= 1 /\ nCreate[c] <= 1
        /\ nCreate[c] = 1 => (nList[c] = 1 /\ Matching(c) = {})
        /\ id[c] # None
           => /\ nList[c] = 1
              /\ nCreate[c] = 1 <=> Matching(c) = {}
              /\ nCreate[c] = 0
                 => \E i \in Matching(c) : pods[c][i].id = id[c][1]
              /\ nCreate[c] = 1
                 => /\ \A i \in 1..Len(pods[c]) : pods[c][i].id # id[c][1]
                    /\ id[c][1] < nextId

\* an attach to the pod listed second, behind a pod of another name
C21_Witness ==
    \E c \in Procs :
        /\ Built(c) /\ nList[c] = 1 /\ nCreate[c] = 0
        /\ Len(pods[c]) = 2
        /\ pods[c][1].name # name[c]
        /\ pods[c][2].name = name[c] /\ id[c] = Some(pods[c][2].id)

\* C22: in the instantiation of a task-execution node every step has its
\* predecessor behind it: a provider request is made only with the
\* credentials stored, a status query only with the list request made and
\* the node id known, the push of the environment file only after the
\* readiness wait has returned, and a run command is started only after
\* the push has been made and has returned.
C22_StepOrder ==
    \A c \in Procs :
        kind[c] = "FinetunePod"
        => /\ (nList[c] > 0 \/ nCreate[c] > 0 \/ nStatus[c] > 0)
              => (Resolved /\ pc[c] \notin {"new", "ssh_check", "ssh_prompt", "ssh_store"})
           /\ nStatus[c] > 0 => (nList[c] = 1 /\ id[c] # None)
           /\ (boot[c] # "none" \/ call[c] = "dotenv")
              => outcome[c] \in {"Reachable", "TimedOut"}
           /\ runs[c] > 0 => boot[c] \in {"ok", "marker"}

\* C23: outside a running execute no remote-shell session of the
\* controller is open: whichever way execute returned or raised, in
\* buffered and in streaming mode, the session it opened is closed.
C23_SessionClosed ==
    \A c \in Procs : pc[c] # "exec" => ssh[c] # "open"

\* the pods of an inventory, as a set
PodsOf(inv) == {inv[i] : i \in 1..Len(inv)}

\* C24: a step in which controller c issues a terminate request issues one,
\* for the pod whose id c holds and no other pod; it changes no name, id,
\* address or port of any controller and nothing of the credential cache;
\* and it makes no list, create or status request and leaves the
\* controller where it was (it does not wait for the teardown).
C24_KillFrame ==
    [][\A c \in Procs :
          nTerminate'[c] # nTerminate[c]
          => /\ nTerminate'[c] = nTerminate[c] + 1
             /\ id[c] # None
             /\ PodsOf(inventory') = {pod \in PodsOf(inventory) : pod.id # id[c][1]}
             /\ Len(inventory') = Cardinality(PodsOf(inventory'))
             /\ name' = name /\ id' = id
             /\ public_ip' = public_ip /\ port' = port
             /\ cache' = cache
             /\ nList' = nList /\ nCreate' = nCreate /\ nStatus' = nStatus
             /\ nSleep' = nSleep
             /\ pc' = pc]_vars

\* the controller has killed the pod it created beside a listed one, and
\* still holds its id, address and port
C24_Witness ==
    \E c \in Procs :
        /\ nTerminate[c] = 1 /\ nCreate[c] = 1
        /\ id[c] = Some(2) /\ inventory = <<[id |-> 1, name |-> "a"]>>
        /\ public_ip[c] = Some("10.0.0.1") /\ port[c] = Some(21)
        /\ Resolved /\ Built(c)

====
